---- MODULE Spec2Model ----
(***************************************************************************)
(* smart-commit: the commit flow (processDiffAndCommit), the README drift  *)
(* gate (shouldUpdateReadme), the diff-driven README update                *)
(* (handleReadmeUpdate) and the alignment check (checkAndUpdateReadme) of  *)
(* src/index.ts.                                                           *)
(*                                                                         *)
(* Texts (diffs, README contents, completion responses) are sequences of   *)
(* tokens.  A token stands for a run of characters that the code never     *)
(* splits: a keyword, a path, a fence of three backticks, one white-space  *)
(* character.  String operations of the code (split, startsWith, includes, *)
(* trim, the regular expressions) are computed on these sequences.         *)
(***************************************************************************)
EXTENDS Integers, Sequences, FiniteSets, TLC

\* ------------------------------------------------------------------ bounds

\* Largest number of plain added lines ("+x") in a generated diff.
MaxPlain == 11
\* Largest number of "+++ b/<path>" file-header marker lines in a generated diff.
MaxMarkers == 1
\* Largest number of tokens of a completion response drawn by ProposeSpec.
MaxResponseLen == 3

\* ------------------------------------------------------------------ tokens

NL == "\n"
CR == "\r"
SP == " "
\* Three backticks, the delimiter of a fenced code block.
FENCE == "<fence>"

\* \s of the regular expressions and the characters String.trim removes.
WhiteSpace == {NL, CR, SP}
\* The characters "." does not match and after which "^" (flag m) matches.
LineTerminators == {NL, CR}
\* \w+ : one identifier or keyword token.
WordTokens == {"x", "export", "function", "class", "interface", "type", "const",
               "require", "import", "from", "markdown"}

\* ------------------------------------------------------- string operations

RECURSIVE Repeat(_, _)
\* n copies of the sequence s, concatenated.
Repeat(s, n) == IF n <= 0 THEN <<>> ELSE s \o Repeat(s, n - 1)

RECURSIVE Concat(_)
\* The concatenation of a sequence of sequences.
Concat(ss) == IF ss = <<>> THEN <<>> ELSE Head(ss) \o Concat(Tail(ss))

RECURSIVE TextBetween(_, _, _)
\* The characters of the pieces i..j of s, as one string.
TextBetween(s, i, j) ==
    IF i > j THEN ""
    ELSE IF i = j THEN s[i]
    ELSE LET m == (i + j) \div 2 IN TextBetween(s, i, m) \o TextBetween(s, m + 1, j)

\* The text s as the string of its characters.
Text(s) == TextBetween(s, 1, Len(s))

\* The limits of diff.slice(0, n) in the commit-message and the README prompt.
MessageDiffLimit == 30000
ReadmeDiffLimit == 20000

\* String.slice(0, n) with one character more.
SliceOneMore(str, n) == SubSeq(str, 1, IF Len(str) < n + 1 THEN Len(str) ELSE n + 1)

\* String.slice(0, n), n >= 0: the first n characters, or all when there are fewer.
Slice(str, n) == SubSeq(str, 1, IF Len(str) < n THEN Len(str) ELSE n)

\* String.startsWith
StartsWith(s, p) == Len(s) >= Len(p) /\ SubSeq(s, 1, Len(p)) = p

\* p occurs in s at position i.
MatchAt(s, i, p) == i + Len(p) - 1 <= Len(s) /\ SubSeq(s, i, i + Len(p) - 1) = p

\* String.includes
Includes(s, p) == \E i \in 1..(Len(s) + 1) : MatchAt(s, i, p)

RECURSIVE SplitFrom(_, _, _)
\* String.split on the newline, from position i with the line cur begun.
SplitFrom(s, i, cur) ==
    IF i > Len(s) THEN <<cur>>
    ELSE IF s[i] = NL THEN <<cur>> \o SplitFrom(s, i + 1, <<>>)
    ELSE SplitFrom(s, i + 1, Append(cur, s[i]))

Split(s) == SplitFrom(s, 1, <<>>)

RECURSIVE TrimStart(_)
TrimStart(s) ==
    IF s # <<>> /\ Head(s) \in WhiteSpace THEN TrimStart(Tail(s)) ELSE s

RECURSIVE TrimEnd(_)
TrimEnd(s) ==
    IF s # <<>> /\ s[Len(s)] \in WhiteSpace THEN TrimEnd(SubSeq(s, 1, Len(s) - 1)) ELSE s

\* String.trim
Trim(s) == TrimEnd(TrimStart(s))

\* "^" under flag m: the start of the text, or just after a line terminator.
AtLineStart(s, i) == i = 1 \/ (i > 1 /\ i <= Len(s) + 1 /\ s[i - 1] \in LineTerminators)

\* ".*" between positions i and j (exclusive): no line terminator in between.
SameLine(s, i, j) == \A k \in (i + 1)..(j - 1) : s[k] \notin LineTerminators

\* -------------------------------------------------------- shouldUpdateReadme

\* /^[+].*<kw>\s+/m : function, class, export, interface.
KeywordPattern(s, kw) ==
    \E i \in 1..Len(s) : \E j \in (i + 1)..(Len(s) - 1) :
        /\ AtLineStart(s, i) /\ s[i] = "+"
        /\ SameLine(s, i, j)
        /\ s[j] = kw
        /\ s[j + 1] \in WhiteSpace

RECURSIVE SkipSpace(_, _)
\* The position after the white space that starts at i (\s*).
SkipSpace(s, i) == IF i <= Len(s) /\ s[i] \in WhiteSpace THEN SkipSpace(s, i + 1) ELSE i

RECURSIVE SkipWord(_, _)
\* The position after the identifier characters that start at i (the rest of \w+).
SkipWord(s, i) == IF i <= Len(s) /\ s[i] \in WordTokens THEN SkipWord(s, i + 1) ELSE i

\* /^[+].*type\s+\w+\s*=/m
TypePattern(s) ==
    \E i \in 1..Len(s) : \E j \in (i + 1)..(Len(s) - 1) :
        /\ AtLineStart(s, i) /\ s[i] = "+"
        /\ SameLine(s, i, j)
        /\ s[j] = "type"
        /\ s[j + 1] \in WhiteSpace
        /\ LET w == SkipSpace(s, j + 1)
           IN  /\ w <= Len(s) /\ s[w] \in WordTokens
               /\ LET e == SkipSpace(s, SkipWord(s, w)) IN e <= Len(s) /\ s[e] = "="

\* /^[+].*const\s+\w+.*=.*require/m
RequirePattern(s) ==
    \E i \in 1..Len(s) : \E j \in (i + 1)..(Len(s) - 1) :
        /\ AtLineStart(s, i) /\ s[i] = "+"
        /\ SameLine(s, i, j)
        /\ s[j] = "const"
        /\ s[j + 1] \in WhiteSpace
        /\ LET w == SkipSpace(s, j + 1)
           IN  /\ w <= Len(s) /\ s[w] \in WordTokens
               /\ \E e \in (w + 1)..Len(s) : \E r \in (e + 1)..Len(s) :
                     /\ s[e] = "=" /\ s[r] = "require"
                     /\ SameLine(s, w, r + 1)

\* /^[+].*import.*from/m
ImportPattern(s) ==
    \E i \in 1..Len(s) : \E j \in (i + 1)..Len(s) : \E f \in (j + 1)..Len(s) :
        /\ AtLineStart(s, i) /\ s[i] = "+"
        /\ s[j] = "import" /\ s[f] = "from"
        /\ SameLine(s, i, f + 1)

\* significantPatterns.some(pattern => pattern.test(diff))
SignificantMatch(d) ==
    \/ KeywordPattern(d, "function")
    \/ KeywordPattern(d, "class")
    \/ KeywordPattern(d, "export")
    \/ KeywordPattern(d, "interface")
    \/ TypePattern(d)
    \/ RequirePattern(d)
    \/ ImportPattern(d)

\* diff.split('\n').filter(line => line.startsWith('+')).length
AddedLines(d) ==
    LET lines == Split(d)
    IN  Cardinality({k \in 1..Len(lines) : StartsWith(lines[k], <<"+">>)})

\* The minimal-size threshold of shouldUpdateReadme.
MinAddedLines == 10

\* diff.includes('diff --git a/README.md') || diff.includes('diff --git b/README.md')
ReadmeInDiff(d) ==
    \/ Includes(d, <<"diff --git ", "a/README.md">>)
    \/ Includes(d, <<"diff --git ", "b/README.md">>)

\* shouldUpdateReadme with the threshold test written "<=": a diff of exactly
\* MinAddedLines added lines is rejected.
shouldUpdateReadmeOffByOne(d) ==
    IF ReadmeInDiff(d) THEN FALSE
    ELSE IF AddedLines(d) <= MinAddedLines THEN FALSE
    ELSE SignificantMatch(d)

shouldUpdateReadme(d) ==
    IF ReadmeInDiff(d) THEN FALSE
    ELSE IF AddedLines(d) < MinAddedLines THEN FALSE
    ELSE SignificantMatch(d)

\* ------------------------------------------------------------------- diffs

\* "diff --git a/<path> b/<path>" header lines.
HeaderCode == <<"diff --git ", "a/src/x.ts", SP, "b/src/x.ts">>
HeaderSelf == <<"diff --git ", "a/README.md", SP, "b/README.md">>
\* A rename whose destination is README.md, and one whose origin is README.md.
HeaderRenameTo == <<"diff --git ", "a/OLD.md", SP, "b/README.md">>
HeaderRenameFrom == <<"diff --git ", "a/README.md", SP, "b/NEW.md">>
\* A file whose path holds "import" and "from": src/import-from-csv.ts (the
\* b/ path, which the marker line repeats, in the pieces the patterns look at).
HeaderImportFrom ==
    <<"diff --git ", "a/src/import-from-csv.ts", SP, "b/src/", "import", "-", "from", "-csv.ts">>
Headers == {HeaderCode, HeaderSelf, HeaderRenameTo, HeaderRenameFrom, HeaderImportFrom}

\* The file-header marker line "+++ b/<path>" of the header h.
Marker(h) == <<"+", "+", "+", SP>> \o SubSeq(h, 4, Len(h))

\* Hunk lines: added ("+"), removed ("-") and context (" ") lines.
AddedPlain == <<"+", "x">>
AddedExport == <<"+", "export", SP, "x">>
AddedExportAfterCR == <<"+", "x", CR, "export", SP, "x">>
ContextExport == <<SP, "export", SP, "x">>
RemovedExport == <<"-", "export", SP, "x">>
AddedFunction == <<"+", "function", SP, "x">>
AddedClass == <<"+", "class", SP, "x">>
AddedInterface == <<"+", "interface", SP, "x">>
AddedType == <<"+", "type", SP, "x", SP, "=", SP, "x">>
AddedRequire == <<"+", "const", SP, "x", SP, "=", SP, "require">>
AddedImport == <<"+", "import", SP, "x", SP, "from", SP, "x">>
NoLine == <<>>
SpecialLines == {AddedExport, AddedExportAfterCR, ContextExport, RemovedExport,
                 AddedFunction, AddedClass, AddedInterface, AddedType,
                 AddedRequire, AddedImport}

\* The lines ls, each ended by a newline, as one text.
JoinLines(ls) == Concat([k \in 1..Len(ls) |-> ls[k] \o <<NL>>])

\* The lines of one file section of "git diff --cached": the header h, m marker
\* lines, the special lines sp (NoLine entries left out) and n plain added lines.
Section(h, m, sp, n) ==
    <<h>> \o [k \in 1..m |-> Marker(h)]
          \o SelectSeq(sp, LAMBDA l : l # NoLine)
          \o [k \in 1..n |-> AddedPlain]

\* A staged diff: one file section, followed when alsoReadme by a section of
\* README.md itself.
BuildDiff(h, m, sp, n, alsoReadme) ==
    JoinLines(Section(h, m, sp, n)
              \o (IF alsoReadme THEN Section(HeaderSelf, 1, <<>>, 1) ELSE <<>>))

\* The diffs the gate is applied to.
GateDiffs ==
    {BuildDiff(h, m, <<s1, s2>>, n, r) :
        h \in Headers, m \in 0..MaxMarkers,
        s1 \in SpecialLines \cup {NoLine}, s2 \in {AddedExport, ContextExport, NoLine},
        n \in 0..MaxPlain, r \in BOOLEAN}

\* ------------------------------------------------- the completion response

NO_UPDATE_NEEDED == <<"NO_UPDATE_NEEDED">>
README_IS_ACCURATE == <<"README_IS_ACCURATE">>

\* The baseline handleReadmeUpdate uses when README.md cannot be read:
\* "# Project\n\nNo README found."
DefaultReadme == <<"# Project", NL, NL, "No README found.">>

RECURSIVE ReplaceFrom(_, _, _)
\* text.replace(/^<pat>\n?/gm, '') from position i: every occurrence of pat at a
\* line start of the text is removed, with the newline that follows it if any.
\* The scan goes on after the match, and "^" looks at the text as it was.
ReplaceFrom(s, i, pat) ==
    IF i > Len(s) THEN <<>>
    ELSE IF AtLineStart(s, i) /\ MatchAt(s, i, pat)
         THEN LET j == i + Len(pat)
              IN  ReplaceFrom(s, IF j <= Len(s) /\ s[j] = NL THEN j + 1 ELSE j, pat)
         ELSE <<s[i]>> \o ReplaceFrom(s, i + 1, pat)

\* .replace(/^```markdown\n?/gm, '')
StripMarkdownFence(s) == ReplaceFrom(s, 1, <<FENCE, "markdown">>)

\* .replace(/^```\n?/gm, '')
StripFence(s) == ReplaceFrom(s, 1, <<FENCE>>)

\* result.response.text().trim(), then the clean-up of markdown code blocks and
\* the second trim.
Normalize(raw) == Trim(StripFence(StripMarkdownFence(Trim(raw))))

\* Classify without the sentinel test.
ClassifyWithoutSentinel(text, sentinel, baseline) ==
    IF text = baseline THEN "identical-to-baseline" ELSE "candidate"

\* The tri-state outcome of the proposer for a normalized text against the
\* sentinel literal of the flow and the baseline that was read.
Classify(text, sentinel, baseline) ==
    IF text = sentinel THEN "no-update-needed"
    ELSE IF text = baseline THEN "identical-to-baseline"
    ELSE "candidate"

\* A response wrapped in a fenced code block, as the service may return it.
WrapMarkdown(r) == <<FENCE, "markdown", NL>> \o r \o <<NL, FENCE>>
WrapPlain(r) == <<FENCE, NL>> \o r \o <<NL, FENCE>>

\* ------------------------------------------------------------------- state

VARIABLES
    mode,               \* "commit" (processDiffAndCommit) or "readme" (--update-readme)
    pc,                 \* the await or call the run is at
    diff,               \* the staged diff handed to processDiffAndCommit
    readmeAtStart,      \* <<readmeExists, readmeFile>> when the run began
    readmeExists,       \* README.md is a file of the working tree
    readmeFile,         \* the text of README.md on disk
    generatedMessage,   \* the commit message the service returned
    shouldCheckReadme,  \* "unset", or "true" / "false": what shouldUpdateReadme returned
    currentReadme,      \* the baseline that was read
    response,           \* the raw text the service returned for the README request
    updatedReadme,      \* the normalized response (updatedReadme / analysis)
    outcome,            \* "none", or the proposer's classification
    previewed,          \* the texts shown as a proposal
    applyAnswer,        \* "unasked", "asked", "yes" or "no": the apply prompt
    readmeUpdated,      \* the value handleReadmeUpdate returned
    writes,             \* the texts written to README.md, in order
    staged,             \* the number of "git add README.md" that succeeded
    calls,              \* the generateContent requests made, in order
    docFailure,         \* "none", or the last step of the README flow that threw
    shown,              \* what the commit flow displayed: "message", "notice", "menu", "push"
    commitMessage,      \* the message handed to runCommit
    commits,            \* the messages of the git commits that exited with status 0
    pushes,             \* the number of "git push" attempted
    action,             \* "unset", or the answer to the menu: "commit", "edit", "cancel"
    customMessage,      \* "", or the answer to "Enter new message:"
    status,             \* "unset", or the exit status of git commit: "0" or "1"
    shouldPush,         \* "unasked", or the answer to the push prompt: "true", "false"
    envSet,             \* GEMINI_API_KEY is set in the environment
    envKey,             \* process.env.GEMINI_API_KEY (empty when not set)
    configFile,         \* ~/.smart-commit/config.json: absent, corrupt, or JSON
    config,             \* the Config object initializeApiKey holds
    apiKey,             \* the key initializeApiKey returned (empty before it returns)
    keyPc,              \* the step initializeApiKey is at
    keyLog,             \* loadConfig, saveConfig, welcome and setup events, in order
    prompt,             \* the git diff text in each commit-message prompt sent, in order
    readmePrompt        \* the code changes text in each README prompt sent, in order

vars == <<mode, pc, diff, readmeAtStart, readmeExists, readmeFile, generatedMessage, shouldCheckReadme,
          currentReadme, response, updatedReadme, outcome, previewed, applyAnswer,
          readmeUpdated, writes, staged, calls, docFailure, shown, commitMessage,
          commits, pushes, action, customMessage, status, shouldPush,
          envSet, envKey, configFile, config, apiKey, keyPc, keyLog, prompt, readmePrompt>>

\* What a run is given and never changes.
inputVars == <<mode, diff, readmeAtStart>>
\* What the README flow (handleReadmeUpdate, checkAndUpdateReadme) reads and writes.
readmeVars == <<readmeExists, readmeFile, currentReadme, response, updatedReadme, outcome,
                previewed, applyAnswer, writes, staged, docFailure>>
\* What the commit menu and runCommit read and write.
commitVars == <<shown, commitMessage, commits, pushes>>
\* The answers and the exit status the menu and runCommit act on.
menuVars == <<action, customMessage, status, shouldPush>>
\* What initializeApiKey reads and writes.
keyVars == <<envSet, envKey, configFile, config, apiKey, keyPc, keyLog>>
\* The change descriptions embedded in the prompts that were sent.
promptVars == <<prompt, readmePrompt>>
\* Everything main does once it has the key.
runVars == <<mode, pc, diff, readmeAtStart, generatedMessage, shouldCheckReadme, readmeVars,
             readmeUpdated, calls, commitVars, menuVars, promptVars>>

\* ------------------------------------------------------------------ inputs

\* README.md texts: without and with a final newline, and with a fenced block.
ReadmeShort == <<"x">>
ReadmeNewline == <<"x", NL>>
ReadmeFenced == <<"x", NL, FENCE, "x", NL, "x", NL, FENCE, NL>>
Readmes == {ReadmeShort, ReadmeNewline, ReadmeFenced}

\* A replacement document the service proposes.
Candidate == <<"x", SP, "x">>

\* Staged diffs of the commit flow: a gated-in one (12 added lines, one of them an
\* export), a small one, and one that modifies only README.md with 20 added
\* lines that match "export".
DiffSignificant == BuildDiff(HeaderCode, 1, <<AddedExport>>, 11, FALSE)
DiffSmall == BuildDiff(HeaderCode, 1, <<AddedExport>>, 2, FALSE)
DiffReadmeOnly == JoinLines(<<HeaderSelf, Marker(HeaderSelf)>> \o [k \in 1..20 |-> AddedExport])
FlowDiffs == {DiffSignificant, DiffSmall, DiffReadmeOnly}

\* The texts the completion service returns for a README request.
FlowResponses ==
    {NO_UPDATE_NEEDED, README_IS_ACCURATE, Candidate, WrapMarkdown(Candidate),
     WrapMarkdown(NO_UPDATE_NEEDED)} \cup Readmes

\* The alphabet of the responses drawn exhaustively, up to MaxResponseLen tokens.
ResponseTokens == {"x", SP, NL, FENCE, "markdown", "NO_UPDATE_NEEDED", "README_IS_ACCURATE"}
ShortResponses == UNION {[1..n -> ResponseTokens] : n \in 0..MaxResponseLen}
AllResponses ==
    ShortResponses \cup {WrapMarkdown(r) : r \in ShortResponses}
                   \cup {WrapPlain(r) : r \in ShortResponses}
                   \cup Readmes

\* How far below and above a slice limit the long diffs reach, in characters.
MaxOver == 2

\* A staged diff of exactly n characters (n >= 60): the header of one file, up
\* to two export lines and plain added lines.
DiffOfLength(n) ==
    LET plain == AddedPlain \o <<NL>>
        export == AddedExport \o <<NL>>
        rest == n - Len(Text(HeaderCode \o <<NL>>))
        b == CHOOSE k \in 0..2 : (rest - k * Len(Text(export))) % Len(Text(plain)) = 0
        a == (rest - b * Len(Text(export))) \div Len(Text(plain))
    IN  JoinLines(<<HeaderCode>> \o [k \in 1..b |-> AddedExport])
            \o [i \in 1..(a * Len(plain)) |-> plain[((i - 1) % Len(plain)) + 1]]

\* Diffs around the two slice limits, and the short diffs of the commit flow.
PromptDiffs ==
    FlowDiffs \cup {DiffOfLength(limit + over) :
                       limit \in {ReadmeDiffLimit, MessageDiffLimit}, over \in (0 - MaxOver)..MaxOver}

Messages == {"feat: x"}
CustomMessages == {"feat: x", "fix: y"}
DocsMessage == "docs: update README.md"

\* -------------------------------------------------------------------- Init

\* API keys: one of the environment, one stored, one typed at the prompt.
EnvKeyText == "AIzaSy-env-0123456789"
StoredKeyText == "AIzaSy-stored-0123456"
TypedKeyText == "AIzaSy-typed-01234567"
ShortKeyText == "AIzaSy"

\* The values GEMINI_API_KEY may hold when set: empty, blank, a key, a key
\* with white space around it.
EnvKeys == {<<>>, <<SP>>, <<EnvKeyText>>, <<SP, EnvKeyText, NL>>}

\* A Config object: apiKey is empty when the property is missing or "".
EmptyConfig == [apiKey |-> <<>>, hasSeenWelcome |-> FALSE]
Configs == [apiKey : {<<>>, <<StoredKeyText>>, <<SP, StoredKeyText>>}, hasSeenWelcome : BOOLEAN]

\* The config file: not there, not parseable, or the JSON of a Config.
ConfigFiles ==
    {[state |-> st, apiKey |-> <<>>, hasSeenWelcome |-> FALSE] : st \in {"absent", "corrupt"}}
    \cup {[state |-> "json", apiKey |-> c.apiKey, hasSeenWelcome |-> c.hasSeenWelcome] :
             c \in Configs}

\* What may be typed at "Enter your Gemini API key:".
KeyInputs == {<<>>, <<SP>>, <<ShortKeyText>>, <<TypedKeyText>>, <<SP, TypedKeyText, SP>>}

\* input.trim().length, in characters.
RECURSIVE KeyLength(_)
KeyLength(s) == IF s = <<>> THEN 0 ELSE Len(Head(s)) + KeyLength(Tail(s))

MinKeyLength == 20

\* The validate callback of the password prompt accepts the input.
ValidKey(input) == KeyLength(Trim(input)) >= MinKeyLength

\* initializeApiKey has returned the key of the environment.
KeyReturned ==
    /\ envSet = TRUE
    /\ envKey = <<EnvKeyText>>
    /\ configFile \in {f \in ConfigFiles : f.state = "absent"}
    /\ config = EmptyConfig
    /\ apiKey = <<EnvKeyText>>
    /\ keyPc = "returned"
    /\ keyLog = <<>>

\* The prompts sent so far hold what the requests in calls were given.
PromptsSent ==
    /\ prompt = IF calls = <<>> THEN <<>> ELSE <<Slice(Text(diff), MessageDiffLimit)>>
    /\ readmePrompt = <<>>

\* Nothing of the README flow has happened.
InitReadmeFlow ==
    /\ readmeAtStart = <<readmeExists, readmeFile>>
    /\ response = <<>>
    /\ updatedReadme = <<>>
    /\ outcome = "none"
    /\ previewed = {}
    /\ applyAnswer = "unasked"
    /\ readmeUpdated = FALSE
    /\ writes = <<>>
    /\ staged = 0
    /\ docFailure = "none"

\* Nothing of the menu or of runCommit has happened.
InitCommitFlow ==
    /\ shown = {}
    /\ commitMessage = ""
    /\ commits = <<>>
    /\ pushes = 0
    /\ action = "unset"
    /\ customMessage = ""
    /\ status = "unset"
    /\ shouldPush = "unasked"

\* main has the API key and, in the commit flow, a non-blank staged diff; with
\* --update-readme it calls checkAndUpdateReadme, else processDiffAndCommit.
Init ==
    /\ mode \in {"commit", "readme"}
    /\ diff \in (IF mode = "commit" THEN FlowDiffs ELSE {<<>>})
    /\ pc = IF mode = "commit" THEN "generate" ELSE "a_read"
    /\ readmeExists \in BOOLEAN
    /\ readmeFile \in (IF readmeExists THEN Readmes ELSE {<<>>})
    /\ generatedMessage = ""
    /\ shouldCheckReadme = "unset"
    /\ currentReadme = <<>>
    /\ calls = <<>>
    /\ InitReadmeFlow
    /\ InitCommitFlow
    /\ KeyReturned
    /\ PromptsSent

\* ---------------------------------------------------- processDiffAndCommit

\* What processDiffAndCommit displays before the menu: the generated message,
\* the "README.md updated" notice when readmeUpdated, and the menu prompt.
DisplayResult(updated) == {"message", "menu"} \cup (IF updated THEN {"notice"} ELSE {})

\* model.generateContent(prompt) resolves: the commit message is kept.
GenerateMessage ==
    /\ pc = "generate"
    /\ \E m \in Messages : generatedMessage' = m
    /\ calls' = Append(calls, "message")
    /\ prompt' = Append(prompt, Slice(Text(diff), MessageDiffLimit))
    /\ pc' = "gate"
    /\ UNCHANGED <<keyVars, readmePrompt, menuVars, inputVars, shouldCheckReadme, readmeVars, readmeUpdated, commitVars>>

\* CheckReadme with the result of the gate ignored: handleReadmeUpdate is always
\* entered.
CheckReadmeIgnoresGate ==
    /\ pc = "gate"
    /\ shouldCheckReadme' = (IF shouldUpdateReadme(diff) THEN "true" ELSE "false")
    /\ pc' = "h_ask"
    /\ UNCHANGED <<keyVars, promptVars, menuVars, inputVars, generatedMessage, readmeVars, readmeUpdated, calls, commitVars>>

\* shouldCheckReadme = await shouldUpdateReadme(diff). With the gate open,
\* handleReadmeUpdate asks whether to update README.md; else the message is
\* displayed and the menu prompted.
CheckReadme ==
    /\ pc = "gate"
    /\ shouldCheckReadme' = (IF shouldUpdateReadme(diff) THEN "true" ELSE "false")
    /\ IF shouldCheckReadme' = "true"
       THEN pc' = "h_ask" /\ shown' = shown
       ELSE pc' = "menu" /\ shown' = DisplayResult(FALSE)
    /\ UNCHANGED <<keyVars, promptVars, menuVars, inputVars, generatedMessage, readmeVars, readmeUpdated, calls,
                   commitMessage, commits, pushes>>

\* model.generateContent(prompt) rejects: the catch of processDiffAndCommit
\* prints the error and the run ends.
GenerateMessageFails ==
    /\ pc = "generate"
    /\ calls' = Append(calls, "message")
    /\ prompt' = Append(prompt, Slice(Text(diff), MessageDiffLimit))
    /\ pc' = "done"
    /\ UNCHANGED <<keyVars, readmePrompt, menuVars, inputVars, generatedMessage, shouldCheckReadme, readmeVars,
                   readmeUpdated, commitVars>>

\* handleReadmeUpdate returns r: the result is displayed and the menu prompted.
ReturnFromReadmeUpdate(r) ==
    /\ readmeUpdated' = r
    /\ shown' = DisplayResult(r)
    /\ pc' = "menu"

\* The answer to "Detected significant changes. Update README.md?".
AskUpdate ==
    /\ pc = "h_ask"
    /\ \E answer \in BOOLEAN :
          IF answer
          THEN pc' = "h_read" /\ UNCHANGED <<readmeUpdated, shown>>
          ELSE ReturnFromReadmeUpdate(FALSE)
    /\ UNCHANGED <<keyVars, promptVars, menuVars, inputVars, generatedMessage, shouldCheckReadme, readmeVars, calls,
                   commitMessage, commits, pushes>>

\* ReadmeUpdateFails without the try/catch of handleReadmeUpdate: the error
\* reaches the catch of processDiffAndCommit and the run ends.
ReadmeUpdateRethrows(step) ==
    /\ docFailure' = step
    /\ pc' = "done"
    /\ UNCHANGED <<readmeUpdated, shown>>

\* A step of handleReadmeUpdate throws: its catch prints "README update failed"
\* and returns false.
ReadmeUpdateFails(step) ==
    /\ docFailure' = step
    /\ ReturnFromReadmeUpdate(FALSE)

AskUpdateFails ==
    /\ pc = "h_ask"
    /\ ReadmeUpdateFails("prompt")
    /\ UNCHANGED <<keyVars, promptVars, menuVars, inputVars, generatedMessage, shouldCheckReadme, readmeExists,
                   readmeFile, currentReadme, response, updatedReadme, outcome, previewed,
                   applyAnswer, writes, staged, calls, commitMessage, commits, pushes>>

\* Bun.file("README.md").text(), with the default text when it throws; then
\* package.json is read for the prompt and the request is sent.
ReadReadme ==
    /\ pc = "h_read"
    /\ \E ok \in BOOLEAN :
          IF readmeExists /\ ok
          THEN currentReadme' = readmeFile /\ docFailure' = docFailure
          ELSE currentReadme' = DefaultReadme /\ docFailure' = "read"
    /\ pc' = "h_request"
    /\ UNCHANGED <<keyVars, promptVars, menuVars, inputVars, generatedMessage, shouldCheckReadme, readmeExists,
                   readmeFile, response, updatedReadme, outcome, previewed, applyAnswer,
                   readmeUpdated, writes, staged, calls, commitVars>>

\* model.generateContent(readmePrompt) resolves with the text raw: it is
\* normalized and classified; a candidate is previewed and the apply prompt shown.
ReceiveReadme(raw) ==
    /\ pc = "h_request"
    /\ calls' = Append(calls, "readme")
    /\ readmePrompt' = Append(readmePrompt, Slice(Text(diff), ReadmeDiffLimit))
    /\ response' = raw
    /\ updatedReadme' = Normalize(raw)
    /\ outcome' = Classify(updatedReadme', NO_UPDATE_NEEDED, currentReadme)
    /\ IF outcome' = "candidate"
       THEN /\ previewed' = previewed \cup {updatedReadme'}
            /\ applyAnswer' = "asked"
            /\ pc' = "h_apply"
            /\ UNCHANGED <<readmeUpdated, shown>>
       ELSE /\ ReturnFromReadmeUpdate(FALSE)
            /\ UNCHANGED <<previewed, applyAnswer>>
    /\ UNCHANGED <<keyVars, prompt, menuVars, inputVars, generatedMessage, shouldCheckReadme, readmeExists,
                   readmeFile, currentReadme, writes, staged, docFailure,
                   commitMessage, commits, pushes>>

RequestReadme == \E raw \in FlowResponses : ReceiveReadme(raw)

\* RequestReadmeFails with one retry of the request before giving up.
RequestReadmeFailsAfterRetry ==
    /\ pc = "h_request"
    /\ calls' = calls \o <<"readme", "readme">>
    /\ readmePrompt' = readmePrompt \o <<Slice(Text(diff), ReadmeDiffLimit),
                                          Slice(Text(diff), ReadmeDiffLimit)>>
    /\ ReadmeUpdateFails("request")
    /\ UNCHANGED <<keyVars, prompt, menuVars, inputVars, generatedMessage, shouldCheckReadme, readmeExists,
                   readmeFile, currentReadme, response, updatedReadme, outcome, previewed,
                   applyAnswer, writes, staged, commitMessage, commits, pushes>>

\* model.generateContent(readmePrompt) rejects.
RequestReadmeFails ==
    /\ pc = "h_request"
    /\ calls' = Append(calls, "readme")
    /\ readmePrompt' = Append(readmePrompt, Slice(Text(diff), ReadmeDiffLimit))
    /\ ReadmeUpdateFails("request")
    /\ UNCHANGED <<keyVars, prompt, menuVars, inputVars, generatedMessage, shouldCheckReadme, readmeExists,
                   readmeFile, currentReadme, response, updatedReadme, outcome, previewed,
                   applyAnswer, writes, staged, commitMessage, commits, pushes>>

\* AskApply with the answer ignored: the write follows a "no" too.
AskApplyIgnoresAnswer ==
    /\ pc = "h_apply"
    /\ \E answer \in BOOLEAN : applyAnswer' = IF answer THEN "yes" ELSE "no"
    /\ pc' = "h_write"
    /\ UNCHANGED <<keyVars, promptVars, menuVars, inputVars, generatedMessage, shouldCheckReadme, readmeExists,
                   readmeFile, currentReadme, response, updatedReadme, outcome, previewed,
                   readmeUpdated, writes, staged, calls, docFailure, commitVars>>

\* The answer to "Apply these README changes?".
AskApply ==
    /\ pc = "h_apply"
    /\ \E answer \in BOOLEAN :
          IF answer
          THEN applyAnswer' = "yes" /\ pc' = "h_write" /\ UNCHANGED <<readmeUpdated, shown>>
          ELSE applyAnswer' = "no" /\ ReturnFromReadmeUpdate(FALSE)
    /\ UNCHANGED <<keyVars, promptVars, menuVars, inputVars, generatedMessage, shouldCheckReadme, readmeExists,
                   readmeFile, currentReadme, response, updatedReadme, outcome, previewed,
                   writes, staged, calls, docFailure, commitMessage, commits, pushes>>

AskApplyFails ==
    /\ pc = "h_apply"
    /\ ReadmeUpdateFails("prompt")
    /\ UNCHANGED <<keyVars, promptVars, menuVars, inputVars, generatedMessage, shouldCheckReadme, readmeExists,
                   readmeFile, currentReadme, response, updatedReadme, outcome, previewed,
                   applyAnswer, writes, staged, calls, commitMessage, commits, pushes>>

\* Bun.write("README.md", text)
WriteFile(text) ==
    /\ readmeFile' = text
    /\ readmeExists' = TRUE
    /\ writes' = Append(writes, text)

\* Bun.write("README.md", updatedReadme) resolves.
WriteReadme ==
    /\ pc = "h_write"
    /\ WriteFile(updatedReadme)
    /\ pc' = "h_stage"
    /\ UNCHANGED <<keyVars, promptVars, menuVars, inputVars, generatedMessage, shouldCheckReadme, currentReadme,
                   response, updatedReadme, outcome, previewed, applyAnswer, readmeUpdated,
                   staged, calls, docFailure, commitVars>>

WriteReadmeFails ==
    /\ pc = "h_write"
    /\ ReadmeUpdateFails("write")
    /\ UNCHANGED <<keyVars, promptVars, menuVars, inputVars, generatedMessage, shouldCheckReadme, readmeExists,
                   readmeFile, currentReadme, response, updatedReadme, outcome, previewed,
                   applyAnswer, writes, staged, calls, commitMessage, commits, pushes>>

\* execSync("git add README.md") returns: handleReadmeUpdate returns true.
StageReadme ==
    /\ pc = "h_stage"
    /\ staged' = staged + 1
    /\ ReturnFromReadmeUpdate(TRUE)
    /\ UNCHANGED <<keyVars, promptVars, menuVars, inputVars, generatedMessage, shouldCheckReadme, readmeExists,
                   readmeFile, currentReadme, response, updatedReadme, outcome, previewed,
                   applyAnswer, writes, calls, docFailure, commitMessage, commits, pushes>>

StageReadmeFails ==
    /\ pc = "h_stage"
    /\ ReadmeUpdateFails("stage")
    /\ UNCHANGED <<keyVars, promptVars, menuVars, inputVars, generatedMessage, shouldCheckReadme, readmeExists,
                   readmeFile, currentReadme, response, updatedReadme, outcome, previewed,
                   applyAnswer, writes, staged, calls, commitMessage, commits, pushes>>

\* ------------------------------------------------------ the menu, runCommit

\* The menu with a Cancel that commits the generated message all the same.
MenuCancelCommits ==
    /\ pc = "menu"
    /\ \E answer \in {"commit", "edit", "cancel"} :
          /\ action' = answer
          /\ CASE answer = "commit" -> commitMessage' = generatedMessage /\ pc' = "commit"
               [] answer = "edit" -> commitMessage' = commitMessage /\ pc' = "edit"
               [] answer = "cancel" -> commitMessage' = generatedMessage /\ pc' = "commit"
    /\ UNCHANGED <<keyVars, promptVars, customMessage, status, shouldPush, inputVars, generatedMessage,
                   shouldCheckReadme, readmeVars, readmeUpdated, calls, shown, commits, pushes>>

\* The answer to "What would you like to do? (Y)es, (E)dit, (C)ancel".
Menu ==
    /\ pc = "menu"
    /\ \E answer \in {"commit", "edit", "cancel"} :
          /\ action' = answer
          /\ CASE answer = "commit" -> commitMessage' = generatedMessage /\ pc' = "commit"
               [] answer = "edit" -> commitMessage' = commitMessage /\ pc' = "edit"
               [] answer = "cancel" -> commitMessage' = commitMessage /\ pc' = "done"
    /\ UNCHANGED <<keyVars, promptVars, customMessage, status, shouldPush, inputVars, generatedMessage,
                   shouldCheckReadme, readmeVars, readmeUpdated, calls, shown, commits, pushes>>

\* A prompt of the commit flow throws: the catch of processDiffAndCommit prints
\* the error and the run ends.
PromptFails ==
    /\ pc \in {"menu", "edit", "push_ask"}
    /\ pc' = "done"
    /\ UNCHANGED <<keyVars, promptVars, menuVars, inputVars, generatedMessage, shouldCheckReadme, readmeVars,
                   readmeUpdated, calls, commitVars>>

\* The answer to "Enter new message:".
EditMessage ==
    /\ pc = "edit"
    /\ \E answer \in CustomMessages : customMessage' = answer /\ commitMessage' = answer
    /\ pc' = "commit"
    /\ UNCHANGED <<keyVars, promptVars, action, status, shouldPush, inputVars, generatedMessage, shouldCheckReadme,
                   readmeVars, readmeUpdated, calls, shown, commits, pushes>>

\* runCommit that shows the push prompt whatever git commit exited with.
RunCommitAlwaysAsksPush ==
    /\ pc = "commit"
    /\ \E result \in {0, 1} :
          IF result = 0
          THEN /\ status' = "0"
               /\ commits' = Append(commits, commitMessage)
               /\ shown' = shown \cup {"push"}
               /\ pc' = "push_ask"
          ELSE /\ status' = "1"
               /\ commits' = commits
               /\ shown' = shown \cup {"push"}
               /\ pc' = "push_ask"
    /\ UNCHANGED <<keyVars, promptVars, action, customMessage, shouldPush, inputVars, generatedMessage,
                   shouldCheckReadme, readmeVars, readmeUpdated, calls, commitMessage, pushes>>

\* runCommit: spawnSync("git", ["commit", "-m", message]); with status 0 the
\* push prompt is shown, else "Failed." is printed.
RunCommit ==
    /\ pc = "commit"
    /\ \E result \in {0, 1} :
          IF result = 0
          THEN /\ status' = "0"
               /\ commits' = Append(commits, commitMessage)
               /\ shown' = shown \cup {"push"}
               /\ pc' = "push_ask"
          ELSE /\ status' = "1"
               /\ commits' = commits
               /\ shown' = shown
               /\ pc' = "done"
    /\ UNCHANGED <<keyVars, promptVars, action, customMessage, shouldPush, inputVars, generatedMessage,
                   shouldCheckReadme, readmeVars, readmeUpdated, calls, commitMessage, pushes>>

\* The answer to "Would you like to push to GitHub?"; on yes the branch is read
\* and "git push origin <branch>" is run, its failure caught and printed.
AskPush ==
    /\ pc = "push_ask"
    /\ \E answer \in BOOLEAN : \E branchRead \in BOOLEAN :
          /\ shouldPush' = IF answer THEN "true" ELSE "false"
          /\ pushes' = IF answer /\ branchRead THEN pushes + 1 ELSE pushes
    /\ pc' = "done"
    /\ UNCHANGED <<keyVars, promptVars, action, customMessage, status, inputVars, generatedMessage,
                   shouldCheckReadme, readmeVars, readmeUpdated, calls, shown, commitMessage,
                   commits>>

\* ----------------------------------------------------- checkAndUpdateReadme

commitFlowVars == <<diff, generatedMessage, shouldCheckReadme, readmeUpdated, shown,
                    commitMessage, pushes>>

\* Bun.file("README.md").text(): without the file "README.md not found" and
\* return. Then index.ts and package.json are read; with neither, return.
AlignRead ==
    /\ pc = "a_read"
    /\ \E ok \in BOOLEAN : \E mainFiles \in 0..2 :
          IF readmeExists /\ ok
          THEN /\ currentReadme' = readmeFile
               /\ pc' = IF mainFiles = 0 THEN "done" ELSE "a_request"
          ELSE /\ currentReadme' = currentReadme
               /\ pc' = "done"
    /\ UNCHANGED <<keyVars, promptVars, menuVars, mode, readmeAtStart, commitFlowVars, readmeExists, readmeFile, response, updatedReadme,
                   outcome, previewed, applyAnswer, writes, staged, calls, docFailure,
                   commits>>

\* model.generateContent(alignmentPrompt) resolves with the text raw.
ReceiveAlignment(raw) ==
    /\ pc = "a_request"
    /\ calls' = Append(calls, "readme")
    /\ response' = raw
    /\ updatedReadme' = Normalize(raw)
    /\ outcome' = Classify(updatedReadme', README_IS_ACCURATE, currentReadme)
    /\ IF outcome' = "candidate"
       THEN /\ previewed' = previewed \cup {updatedReadme'}
            /\ applyAnswer' = "asked"
            /\ pc' = "a_apply"
       ELSE /\ pc' = "done"
            /\ UNCHANGED <<previewed, applyAnswer>>
    /\ UNCHANGED <<keyVars, promptVars, menuVars, mode, readmeAtStart, commitFlowVars, readmeExists, readmeFile, currentReadme, writes,
                   staged, docFailure, commits>>

RequestAlignment == \E raw \in FlowResponses : ReceiveAlignment(raw)

\* A step of checkAndUpdateReadme throws: its catch prints "Failed to analyze
\* README" and the run ends.
AlignFails ==
    /\ \/ pc = "a_request" /\ docFailure' = "request" /\ calls' = Append(calls, "readme")
       \/ pc \in {"a_apply", "a_stage_ask"} /\ docFailure' = "prompt" /\ calls' = calls
       \/ pc = "a_write" /\ docFailure' = "write" /\ calls' = calls
    /\ pc' = "done"
    /\ UNCHANGED <<keyVars, promptVars, menuVars, mode, readmeAtStart, commitFlowVars, readmeExists, readmeFile, currentReadme, response,
                   updatedReadme, outcome, previewed, applyAnswer, writes, staged, commits>>

\* The answer to "Apply these README updates?".
AlignApply ==
    /\ pc = "a_apply"
    /\ \E apply \in BOOLEAN :
          IF apply
          THEN applyAnswer' = "yes" /\ pc' = "a_write"
          ELSE applyAnswer' = "no" /\ pc' = "done"
    /\ UNCHANGED <<keyVars, promptVars, menuVars, mode, readmeAtStart, commitFlowVars, readmeExists, readmeFile, currentReadme, response,
                   updatedReadme, outcome, previewed, writes, staged, calls, docFailure,
                   commits>>

\* Bun.write("README.md", analysis) resolves; "Stage and commit README.md?" is asked.
AlignWrite ==
    /\ pc = "a_write"
    /\ WriteFile(updatedReadme)
    /\ pc' = "a_stage_ask"
    /\ UNCHANGED <<keyVars, promptVars, menuVars, mode, readmeAtStart, commitFlowVars, currentReadme, response, updatedReadme, outcome,
                   previewed, applyAnswer, staged, calls, docFailure, commits>>

\* The answer to "Stage and commit README.md?": on yes, "git add README.md" and
\* git commit -m "docs: update README.md"; either may throw, which the catch prints.
AlignStage ==
    /\ pc = "a_stage_ask"
    /\ \E stage \in BOOLEAN : \E added \in BOOLEAN : \E committed \in BOOLEAN :
          /\ staged' = IF stage /\ added THEN staged + 1 ELSE staged
          /\ commits' = IF stage /\ added /\ committed
                        THEN Append(commits, DocsMessage) ELSE commits
          /\ docFailure' = IF stage /\ ~(added /\ committed) THEN "stage" ELSE docFailure
    /\ pc' = "done"
    /\ UNCHANGED <<keyVars, promptVars, menuVars, mode, readmeAtStart, commitFlowVars, readmeExists, readmeFile, currentReadme, response,
                   updatedReadme, outcome, previewed, applyAnswer, writes, calls>>

\* --------------------------------------------------------- initializeApiKey

\* saveConfig(c): the file becomes the JSON of c, or, when the write throws,
\* a warning is printed and the file stays.
SavedFile(c, saved) ==
    IF saved THEN [state |-> "json", apiKey |-> c.apiKey, hasSeenWelcome |-> c.hasSeenWelcome]
    ELSE configFile

\* initializeApiKey that looks at the stored config before the environment.
CheckEnvKeyAfterConfig ==
    /\ keyPc = "env"
    /\ keyPc' = "load"
    /\ UNCHANGED <<envSet, envKey, configFile, config, apiKey, keyLog, runVars>>

\* Priority 1: a GEMINI_API_KEY that is set and not blank is returned trimmed.
CheckEnvKey ==
    /\ keyPc = "env"
    /\ IF envSet /\ envKey # <<>> /\ Trim(envKey) # <<>>
       THEN apiKey' = Trim(envKey) /\ keyPc' = "returned"
       ELSE apiKey' = apiKey /\ keyPc' = "load"
    /\ UNCHANGED <<envSet, envKey, configFile, config, keyLog, runVars>>

\* loadConfig: the parsed file, or {} when it is absent, unreadable or corrupt.
LoadConfig ==
    /\ keyPc = "load"
    /\ \E readable \in BOOLEAN :
          config' = IF configFile.state = "json" /\ readable
                    THEN [apiKey |-> configFile.apiKey,
                          hasSeenWelcome |-> configFile.hasSeenWelcome]
                    ELSE EmptyConfig
    /\ keyLog' = Append(keyLog, "load")
    /\ keyPc' = IF config'.hasSeenWelcome THEN "stored" ELSE "welcome"
    /\ UNCHANGED <<envSet, envKey, configFile, apiKey, runVars>>

\* First run: the welcome message is shown and hasSeenWelcome saved.
ShowWelcome ==
    /\ keyPc = "welcome"
    /\ config' = [config EXCEPT !.hasSeenWelcome = TRUE]
    /\ \E saved \in BOOLEAN : configFile' = SavedFile(config', saved)
    /\ keyLog' = keyLog \o <<"welcome", "save">>
    /\ keyPc' = "stored"
    /\ UNCHANGED <<envSet, envKey, apiKey, runVars>>

\* Priority 2: a stored key is returned as stored; else setupApiKey starts
\* and asks "Would you like to get your free API key now?".
UseStoredKey ==
    /\ keyPc = "stored"
    /\ IF config.apiKey # <<>>
       THEN apiKey' = config.apiKey /\ keyPc' = "returned" /\ keyLog' = keyLog
       ELSE apiKey' = apiKey /\ keyPc' = "get_key" /\ keyLog' = Append(keyLog, "setup")
    /\ UNCHANGED <<envSet, envKey, configFile, config, runVars>>

\* The answer to "Would you like to get your free API key now?".
AskGetKey ==
    /\ keyPc = "get_key"
    /\ \E shouldGetKey \in BOOLEAN : keyPc' = IF shouldGetKey THEN "ready" ELSE "enter"
    /\ UNCHANGED <<envSet, envKey, configFile, config, apiKey, keyLog, runVars>>

\* The answer to "Have you obtained your API key?": on no, process.exit(0).
AskReady ==
    /\ keyPc = "ready"
    /\ \E ready \in BOOLEAN : keyPc' = IF ready THEN "enter" ELSE "exited"
    /\ UNCHANGED <<envSet, envKey, configFile, config, apiKey, keyLog, runVars>>

\* An input the prompt accepts is tested against the service: when the test
\* passes the trimmed key is saved and returned, else process.exit(1).
EnterKey ==
    /\ keyPc = "enter"
    /\ \E input \in {k \in KeyInputs : ValidKey(k)} : \E valid \in BOOLEAN :
          \E saved \in BOOLEAN :
             IF valid
             THEN /\ apiKey' = Trim(input)
                  /\ config' = [config EXCEPT !.apiKey = Trim(input)]
                  /\ configFile' = SavedFile(config', saved)
                  /\ keyLog' = Append(keyLog, "save")
                  /\ keyPc' = "returned"
             ELSE /\ UNCHANGED <<apiKey, config, configFile, keyLog>>
                  /\ keyPc' = "exited"
    /\ UNCHANGED <<envSet, envKey, runVars>>

\* ------------------------------------------------------------ specification

HandleReadmeUpdate ==
    \/ AskUpdate \/ AskUpdateFails
    \/ ReadReadme
    \/ RequestReadme \/ RequestReadmeFails
    \/ AskApply \/ AskApplyFails
    \/ WriteReadme \/ WriteReadmeFails
    \/ StageReadme \/ StageReadmeFails

ProcessDiffAndCommit ==
    \/ GenerateMessage \/ GenerateMessageFails
    \/ CheckReadme
    \/ Menu \/ EditMessage \/ PromptFails
    \/ RunCommit \/ AskPush

CheckAndUpdateReadme ==
    \/ AlignRead
    \/ RequestAlignment
    \/ AlignFails
    \/ AlignApply \/ AlignWrite \/ AlignStage

Next == ProcessDiffAndCommit \/ HandleReadmeUpdate \/ CheckAndUpdateReadme

Spec == Init /\ [][Next]_vars

\* processDiffAndCommit at the drift gate, for every generated diff: the commit
\* message has been received and shouldUpdateReadme is about to be evaluated.
InitGate ==
    /\ mode = "commit"
    /\ diff \in GateDiffs
    /\ pc = "gate"
    /\ readmeExists = FALSE
    /\ readmeFile = <<>>
    /\ generatedMessage \in Messages
    /\ shouldCheckReadme = "unset"
    /\ currentReadme = <<>>
    /\ calls = <<"message">>
    /\ InitReadmeFlow
    /\ InitCommitFlow
    /\ KeyReturned
    /\ PromptsSent

NextGate == CheckReadme

GateSpec == InitGate /\ [][NextGate]_vars

\* Either README flow with its request in flight, for every short response and
\* its fenced forms: the baseline has been read and the service is about to answer.
InitPropose ==
    /\ mode \in {"commit", "readme"}
    /\ diff = IF mode = "commit" THEN DiffSignificant ELSE <<>>
    /\ pc = IF mode = "commit" THEN "h_request" ELSE "a_request"
    /\ readmeExists = TRUE
    /\ readmeFile \in Readmes
    /\ generatedMessage \in (IF mode = "commit" THEN Messages ELSE {""})
    /\ shouldCheckReadme = IF mode = "commit" THEN "true" ELSE "unset"
    /\ currentReadme = readmeFile
    /\ calls = IF mode = "commit" THEN <<"message">> ELSE <<>>
    /\ InitReadmeFlow
    /\ InitCommitFlow
    /\ KeyReturned
    /\ PromptsSent

NextPropose ==
    \/ \E raw \in AllResponses : ReceiveReadme(raw)
    \/ \E raw \in AllResponses : ReceiveAlignment(raw)

ProposeSpec == InitPropose /\ [][NextPropose]_vars

\* main calls initializeApiKey, for every environment and every config file.
InitKey ==
    /\ envSet \in BOOLEAN
    /\ envKey \in (IF envSet THEN EnvKeys ELSE {<<>>})
    /\ configFile \in ConfigFiles
    /\ config = EmptyConfig
    /\ apiKey = <<>>
    /\ keyPc = "env"
    /\ keyLog = <<>>
    /\ mode = "commit"
    /\ diff = DiffSmall
    /\ pc = "generate"
    /\ readmeExists = FALSE
    /\ readmeFile = <<>>
    /\ generatedMessage = ""
    /\ shouldCheckReadme = "unset"
    /\ currentReadme = <<>>
    /\ calls = <<>>
    /\ InitReadmeFlow
    /\ InitCommitFlow
    /\ PromptsSent

InitializeApiKey ==
    \/ CheckEnvKey
    \/ LoadConfig
    \/ ShowWelcome
    \/ UseStoredKey
    \/ AskGetKey \/ AskReady \/ EnterKey

KeySpec == InitKey /\ [][InitializeApiKey]_vars

\* processDiffAndCommit about to send the commit-message request, and
\* handleReadmeUpdate about to send the README request, for diffs around the
\* slice limits.
InitPrompt ==
    /\ mode = "commit"
    /\ diff \in PromptDiffs
    /\ pc \in {"generate", "h_request"}
    /\ readmeExists = (pc = "h_request")
    /\ readmeFile \in (IF readmeExists THEN Readmes ELSE {<<>>})
    /\ generatedMessage \in (IF pc = "h_request" THEN Messages ELSE {""})
    /\ shouldCheckReadme = IF pc = "h_request" THEN "true" ELSE "unset"
    /\ currentReadme = readmeFile
    /\ calls = IF pc = "h_request" THEN <<"message">> ELSE <<>>
    /\ InitReadmeFlow
    /\ InitCommitFlow
    /\ KeyReturned
    /\ PromptsSent

NextPrompt ==
    \/ GenerateMessage \/ GenerateMessageFails
    \/ RequestReadme \/ RequestReadmeFails

PromptSpec == InitPrompt /\ [][NextPrompt]_vars

\* ------------------------------------------------------------------ claims

\* The commit flow is past handleReadmeUpdate: the message has been displayed
\* and the menu prompted.
AtMenuOrLater == pc \in {"menu", "edit", "commit", "push_ask", "done"}

\* The number of requests of kind k made so far.
CallCount(k) == Cardinality({i \in 1..Len(calls) : calls[i] = k})

\* C1: in both flows README.md is written only after a candidate was computed
\* and previewed and the apply prompt for it was answered yes; the text written
\* is that candidate, and with the apply prompt unasked or answered no the file
\* is as the run found it.
C1_WriteOnlyAfterApply ==
    /\ writes # <<>> =>
          /\ outcome = "candidate"
          /\ applyAnswer = "yes"
          /\ updatedReadme \in previewed
          /\ writes = <<updatedReadme>>
    /\ applyAnswer # "yes" =>
          /\ writes = <<>>
          /\ <<readmeExists, readmeFile>> = readmeAtStart

\* C1 witness: a candidate was approved and written, in the alignment flow.
C1_Witness == mode = "readme" /\ writes = <<Candidate>> /\ readmeFile = Candidate

\* The lines of d that are "diff --git" headers.
HeaderLines(d) ==
    LET lines == Split(d)
    IN  {lines[k] : k \in {j \in 1..Len(lines) : StartsWith(lines[j], <<"diff --git ">>)}}

\* A header of d mentions a/README.md or b/README.md.
MentionsReadme(d) ==
    \E h \in HeaderLines(d) : \E i \in 1..Len(h) : h[i] \in {"a/README.md", "b/README.md"}

\* C2: for every diff with a header that mentions a/README.md or b/README.md,
\* shouldUpdateReadme returns false.
C2_ReadmeDiffNotConsidered ==
    (shouldCheckReadme # "unset" /\ MentionsReadme(diff)) => shouldCheckReadme = "false"

\* The added lines of d, the "+++ b/<path>" file-header marker lines not counted.
AddedCodeLines(d) ==
    LET lines == Split(d)
    IN  Cardinality({k \in 1..Len(lines) :
            /\ StartsWith(lines[k], <<"+">>)
            /\ ~StartsWith(lines[k], <<"+", "+", "+", SP>>)})

\* C3: for every diff with fewer than 10 added lines, the file-header marker
\* lines not counted, shouldUpdateReadme returns false.
C3_SmallDiffNotConsidered ==
    (shouldCheckReadme # "unset" /\ AddedCodeLines(diff) < 10) => shouldCheckReadme = "false"

\* Some line of d that starts with "+" contains "export " (anywhere in the line).
HasAddedExport(d) ==
    LET lines == Split(d)
    IN  \E k \in 1..Len(lines) :
            StartsWith(lines[k], <<"+">>) /\ Includes(lines[k], <<"export", SP>>)

\* Some line of d that starts with "+" contains "export " with no line
\* terminator (a carriage return) between the "+" and it.
HasAddedExportOnOneLine(d) ==
    LET lines == Split(d)
    IN  \E k \in 1..Len(lines) : \E j \in 2..Len(lines[k]) :
            /\ StartsWith(lines[k], <<"+">>)
            /\ MatchAt(lines[k], j, <<"export", SP>>)
            /\ \A i \in 2..(j - 1) : lines[k][i] \notin LineTerminators

C5_IdenticalToBaseline ==
    (outcome # "none" /\ response = currentReadme) =>
        /\ outcome = "identical-to-baseline"
        /\ previewed = {}
        /\ applyAnswer = "unasked"
        /\ writes = <<>>

\* The sentinel literal of the flow.
Sentinel == IF mode = "commit" THEN NO_UPDATE_NEEDED ELSE README_IS_ACCURATE

\* C6: when the service returns exactly the sentinel literal of the flow, the
\* outcome is no-update-needed, and in no later state of the run has the
\* sentinel been previewed, the apply prompt been shown or README.md been written.
C6_SentinelDiscarded ==
    (outcome # "none" /\ response = Sentinel) =>
        /\ outcome = "no-update-needed"
        /\ previewed = {}
        /\ applyAnswer = "unasked"
        /\ writes = <<>>
        /\ <<readmeExists, readmeFile>> = readmeAtStart

\* C6 witness: the diff-driven flow got NO_UPDATE_NEEDED and the run ended
\* with a commit.
C6_Witness ==
    /\ mode = "commit" /\ response = NO_UPDATE_NEEDED /\ outcome = "no-update-needed"
    /\ pc = "done" /\ commits # <<>>

\* C7: a response r and r wrapped in a triple-backtick fence get the same
\* classified outcome against the same baseline, with the same candidate text.
C7_FenceInvariant ==
    \A r \in ShortResponses :
        (outcome # "none" /\ response \in {WrapMarkdown(r), WrapPlain(r)}) =>
            /\ outcome = Classify(Normalize(r), Sentinel, currentReadme)
            /\ outcome = "candidate" => updatedReadme = Normalize(r)

\* C8: once the README request has failed, README.md is as the run found it,
\* nothing has been written or staged, and the request was made exactly once.
C8_RequestFailureLeavesReadme ==
    docFailure = "request" =>
        /\ writes = <<>>
        /\ staged = 0
        /\ <<readmeExists, readmeFile>> = readmeAtStart
        /\ CallCount("readme") = 1

\* C8 witness: the README request of the commit flow failed and the run went
\* on to commit and push.
C8_Witness ==
    /\ mode = "commit" /\ docFailure = "request" /\ pc = "done"
    /\ commits # <<>> /\ pushes = 1

\* C9: after a failure in handleReadmeUpdate the run is either still inside it
\* (only after a README read failure, which falls back to the default text) or
\* has displayed the generated message and prompted the menu; it never ends
\* without them.
C9_FailureOnlySkipsReadme ==
    (mode = "commit" /\ docFailure # "none") =>
        \/ docFailure = "read" /\ pc \in {"h_request", "h_apply", "h_write", "h_stage"}
        \/ {"message", "menu"} \subseteq shown /\ AtMenuOrLater

\* C9 witness: "git add README.md" failed and the menu is waiting for its answer.
C9_Witness == mode = "commit" /\ docFailure = "stage" /\ pc = "menu"

\* C10 as stated: when the gate returns false, no model call has been made.
C10_Original == shouldCheckReadme = "false" => calls = <<>>

\* C10 amended: when the gate returns false, handleReadmeUpdate is not entered:
\* the only request of the run is the commit-message request, made before the
\* gate, and the run has no proposal, no apply prompt and no README write.
C10_GateClosedNoReadmeRequest ==
    shouldCheckReadme = "false" =>
        /\ calls = <<"message">>
        /\ outcome = "none"
        /\ previewed = {}
        /\ applyAnswer = "unasked"
        /\ writes = <<>>
        /\ <<readmeExists, readmeFile>> = readmeAtStart
        /\ AtMenuOrLater

\* C10 witness: a run on the diff that modifies only README.md (20 added lines
\* that match "export") ended with a commit.
C10_Witness ==
    /\ diff = DiffReadmeOnly /\ shouldCheckReadme = "false"
    /\ pc = "done" /\ commits # <<>>

\* C11: in the commit flow a git commit is run only after the menu was answered Yes, with the
\* generated message, or Edit, with the message that was entered; after Cancel
\* no commit and no push is attempted.
C11_CommitOnlyAfterYesOrEdit ==
    mode = "commit" =>
    /\ commits # <<>> =>
          /\ action \in {"commit", "edit"}
          /\ commits = <<commitMessage>>
          /\ action = "commit" => commitMessage = generatedMessage
          /\ action = "edit" => commitMessage = customMessage
    /\ status # "unset" => action \in {"commit", "edit"}
    /\ action = "cancel" => commits = <<>> /\ pushes = 0 /\ status = "unset"

\* Edit was chosen and the entered message, not the generated one, was committed.
C11_Witness ==
    /\ action = "edit"
    /\ customMessage # generatedMessage
    /\ commits = <<customMessage>>

\* C12: a push is attempted only after git commit exited with status 0 and the
\* push prompt was answered yes; when the commit fails neither the push prompt
\* nor a push happens.
C12_PushOnlyAfterCommitAndYes ==
    /\ pushes > 0 => status = "0" /\ commits # <<>> /\ shouldPush = "true"
    /\ "push" \in shown => status = "0"
    /\ shouldPush # "unasked" => "push" \in shown
    /\ status = "1" => commits = <<>> /\ pushes = 0

\* The commit succeeded, the push prompt was answered yes and the push was run.
C12_Witness ==
    /\ status = "0"
    /\ shouldPush = "true"
    /\ pushes = 1

\* GEMINI_API_KEY is set to a value that is not blank.
EnvKeyNotBlank == envSet /\ Trim(envKey) # <<>>

\* C13: when GEMINI_API_KEY is set and not blank, initializeApiKey returns its
\* trimmed value whatever the config file holds; the config file is neither
\* read nor written and setupApiKey is not started.
C13_EnvKeyFirst ==
    EnvKeyNotBlank =>
       /\ keyPc \in {"env", "returned"}
       /\ keyPc = "returned" => apiKey = Trim(envKey)
       /\ keyLog = <<>>

\* A key with white space around it was returned trimmed while the config
\* file stores another key.
C13_Witness ==
    /\ EnvKeyNotBlank
    /\ envKey # Trim(envKey)
    /\ configFile.state = "json"
    /\ configFile.apiKey # <<>>
    /\ keyPc = "returned"
    /\ apiKey = <<EnvKeyText>>

\* The text with only a fence delimiter at its very start (with "markdown" and
\* the newline after it, if there) and one on a line of its own at its very
\* end removed, then trimmed: everything between is as it was returned.
StripEnds(raw) ==
    LET t == Trim(raw)
        lead == IF StartsWith(t, <<FENCE, "markdown">>) THEN 2
                ELSE IF StartsWith(t, <<FENCE>>) THEN 1 ELSE 0
        from == IF lead > 0 /\ lead < Len(t) /\ t[lead + 1] = NL THEN lead + 2 ELSE lead + 1
        rest == SubSeq(t, from, Len(t))
        n == Len(rest)
        closed == /\ n > 0
                  /\ rest[n] = FENCE
                  /\ (n = 1 \/ rest[n - 1] \in LineTerminators)
    IN  Trim(IF closed THEN SubSeq(rest, 1, n - 1) ELSE rest)

\* The response has a fence that is neither at its very start nor at its very end.
HasInteriorFence(raw) ==
    LET t == Trim(raw) IN \E i \in 2..(Len(t) - 1) : t[i] = FENCE

\* C14: normalization strips only the fence delimiters at the very start and
\* the very end of the response; fence lines inside the response are kept in
\* the candidate text exactly as returned.
C14_InteriorFencesKept ==
    (pc \in {"h_apply", "a_apply"} /\ HasInteriorFence(response)) =>
        updatedReadme = StripEnds(response)

\* Some added line of d, the "+++ b/<path>" marker lines left out, matches one
\* of the seven patterns when looked at on its own (with its newline).
AddedLineMatches(d) ==
    LET lines == Split(d)
    IN  \E k \in 1..Len(lines) :
            /\ StartsWith(lines[k], <<"+">>)
            /\ ~StartsWith(lines[k], <<"+", "+", "+", SP>>)
            /\ SignificantMatch(lines[k] \o <<NL>>)

\* C15: for every diff that does not touch README.md and has at least 10
\* added lines, shouldUpdateReadme returns true if and only if some added
\* line, not the "+++" file-header line, matches one of the seven patterns.
C15_GateIffAddedLineMatches ==
    ( /\ shouldCheckReadme # "unset"
      /\ ~MentionsReadme(diff)
      /\ AddedCodeLines(diff) >= 10 )
        => (shouldCheckReadme = "true" <=> AddedLineMatches(diff))

\* C17: in the commit flow the value handleReadmeUpdate returned, and with it
\* the "README.md updated" notice, is true if and only if README.md was
\* written in the run; when it is false README.md is as it was at the start.
C17_ReturnIffWritten ==
    (mode = "commit" /\ AtMenuOrLater) =>
        /\ readmeUpdated <=> writes # <<>>
        /\ "notice" \in shown <=> writes # <<>>
        /\ ~readmeUpdated => <<readmeExists, readmeFile>> = readmeAtStart

\* p is the text t cut after its first n characters: p followed by the rest
\* of t is t, and p has n characters, or all of t when t has fewer.
IsPrefixOfLength(p, t, n) ==
    /\ Len(p) = (IF Len(t) < n THEN Len(t) ELSE n)
    /\ p \o SubSeq(t, Len(p) + 1, Len(t)) = t

\* C16: the change description embedded in the README prompt is exactly the
\* first 20,000 characters of the diff, the one in the commit-message prompt
\* the first 30,000 (the whole diff when it is shorter): a prefix of the diff.
C16_PromptEmbedsPrefix ==
    /\ \A i \in 1..Len(prompt) : IsPrefixOfLength(prompt[i], Text(diff), 30000)
    /\ \A i \in 1..Len(readmePrompt) : IsPrefixOfLength(readmePrompt[i], Text(diff), 20000)

\* A diff longer than both limits was cut to 30,000 characters in the
\* commit-message prompt and to 20,000 in the README prompt.
C16_Witness ==
    /\ Len(prompt) = 1
    /\ Len(readmePrompt) = 1
    /\ Len(Text(diff)) > 30000
    /\ Len(prompt[1]) = 30000
    /\ Len(readmePrompt[1]) = 20000

====
